---- MODULE Spec2Model ----
(***************************************************************************)
(* Model of the channels-last layout checker of                            *)
(* intermediate_source/memory_format_tutorial.py: contains_cl,             *)
(* print_inputs, check_wrapper/check_cl and attribute.                     *)
(***************************************************************************)
EXTENDS Integers, Sequences, FiniteSets, TLC

VARIABLES
    members,    \* namespace -> (name -> current attribute value)
    kinds,      \* namespace -> (name -> kind of the object first bound to it)
    before,     \* members as they were when the last attribute(m) pass began
    pass,       \* what the last attribute(m) pass did
    passes,     \* namespace -> number of attribute(m) passes run on it
    call,       \* the last call made through a namespace member
    wrapIn,     \* inputs of one call to a check_wrapper(fn) wrapper
    wrapOut,    \* what that call did
    scanIn,     \* the argument tuple handed to contains_cl
    scanOut     \* what contains_cl returned

vars == <<members, kinds, before, pass, passes, call, wrapIn, wrapOut, scanIn, scanOut>>

(***************************************************************************)
(* Bounds                                                                  *)
(***************************************************************************)
MaxSize == 2        \* largest extent of a tensor dimension
MaxDepth == 2       \* deepest nesting of lists/tuples in an argument
MaxArgs == 2        \* most positional arguments of a scanned call
MaxPasses == 2      \* most attribute(m) passes over one namespace

(***************************************************************************)
(* Tensors: shape, strides, device, dtype (the fields the checker reads).  *)
(***************************************************************************)
RECURSIVE Prod(_, _)
Prod(s, k) == IF k > Len(s) THEN 1 ELSE s[k] * Prod(s, k + 1)

\* strides of torch.empty(N, C, H, W): row-major, width densest
ContiguousStrides(shape) == [d \in 1..Len(shape) |-> Prod(shape, d + 1)]

\* strides of torch.empty(N, C, H, W, memory_format=torch.channels_last)
ChannelsLastStrides(shape) ==
    <<shape[2] * shape[3] * shape[4], 1, shape[4] * shape[2], shape[2]>>

\* strides of a contiguous (N, C, W, H) tensor after transpose(2, 3)
TransposedStrides(shape) ==
    <<shape[2] * shape[3] * shape[4], shape[3] * shape[4], 1, shape[3]>>

MkTensor(shape, stride) ==
    [shape |-> shape, stride |-> stride, device |-> "cpu", dtype |-> "float32"]

NoTensor == MkTensor(<<>>, <<>>)

Dim(t) == Len(t.shape)

\* t.is_contiguous(): walking the dimensions from the last one, every
\* dimension of extent other than 1 has the stride a packed row-major tensor
\* gives it
RECURSIVE ContigFrom(_, _, _)
ContigFrom(t, d, expected) ==
    IF d = 0 THEN TRUE
    ELSE IF t.shape[d] = 1 THEN ContigFrom(t, d - 1, expected)
    ELSE IF t.stride[d] # expected THEN FALSE
    ELSE ContigFrom(t, d - 1, expected * t.shape[d])

IsContiguous(t) == ContigFrom(t, Dim(t), 1)

\* t.is_contiguous(memory_format=torch.channels_last): only 4-dimensional
\* tensors qualify; the dimensions are walked in the order C, W, H, N
ChannelsLastOrder == <<2, 4, 3, 1>>

RECURSIVE CLFrom(_, _, _)
CLFrom(t, k, expected) ==
    IF k > Len(ChannelsLastOrder) THEN TRUE
    ELSE LET d == ChannelsLastOrder[k] IN
         IF t.shape[d] = 1 THEN CLFrom(t, k + 1, expected)
         ELSE IF t.stride[d] # expected THEN FALSE
         ELSE CLFrom(t, k + 1, expected * t.shape[d])

IsChannelsLastContiguous(t) == IF Dim(t) # Len(ChannelsLastOrder) THEN FALSE ELSE CLFrom(t, 1, 1)

(***************************************************************************)
(* Argument trees: tensor leaf, list/tuple node, any other value.          *)
(***************************************************************************)
TensorLeaf(t) == [kind |-> "tensor", t |-> t, elems |-> <<>>]
SeqNode(ty, elems) == [kind |-> ty, t |-> NoTensor, elems |-> elems]
\* a value that is neither tensor nor list nor tuple; t is the tensor it
\* holds (a dict or an object with a tensor field), NoTensor if none
Opaque(t) == [kind |-> "opaque", t |-> t, elems |-> <<>>]

IsTensor(x) == x.kind = "tensor"
IsListOrTuple(x) == x.kind = "list" \/ x.kind = "tuple"

(***************************************************************************)
(* contains_cl(args): the for loop with its early returns, from element k. *)
(***************************************************************************)
\* as contains_cl_from, without the `and not t.is_contiguous()` of line 220
RECURSIVE contains_cl_from_either(_, _)
contains_cl_from_either(args, k) ==
    IF k > Len(args) THEN FALSE
    ELSE LET t == args[k] IN
         IF IsTensor(t)
         THEN IF IsChannelsLastContiguous(t.t)
              THEN TRUE
              ELSE contains_cl_from_either(args, k + 1)
         ELSE IF IsListOrTuple(t)
         THEN IF contains_cl_from_either(t.elems, 1)
              THEN TRUE
              ELSE contains_cl_from_either(args, k + 1)
         ELSE contains_cl_from_either(args, k + 1)

RECURSIVE contains_cl_from(_, _)
contains_cl_from(args, k) ==
    IF k > Len(args) THEN FALSE
    ELSE LET t == args[k] IN
         IF IsTensor(t)
         THEN IF IsChannelsLastContiguous(t.t) /\ ~IsContiguous(t.t)
              THEN TRUE
              ELSE contains_cl_from(args, k + 1)
         ELSE IF IsListOrTuple(t)
         THEN IF contains_cl_from(t.elems, 1)
              THEN TRUE
              ELSE contains_cl_from(args, k + 1)
         ELSE contains_cl_from(args, k + 1)

\* as contains_cl, without the descent into lists and tuples
contains_cl_top_level(args) ==
    \E k \in 1..Len(args) :
        IsTensor(args[k]) /\ IsChannelsLastContiguous(args[k].t) /\ ~IsContiguous(args[k].t)

contains_cl(args) == contains_cl_from(args, 1)

(***************************************************************************)
(* print_inputs(args, indent): the lines it prints, in order.  indent      *)
(* counts the four-space steps.                                            *)
(***************************************************************************)
PrintedLine(tag, indent, text) == [tag |-> tag, indent |-> indent, text |-> text]

RECURSIVE print_inputs_from(_, _, _)
print_inputs_from(args, k, indent) ==
    IF k > Len(args) THEN <<>>
    ELSE LET t == args[k]
             rest == print_inputs_from(args, k + 1, indent)
         IN IF IsTensor(t)
            THEN <<PrintedLine("tensor", indent, <<t.t.stride, t.t.shape, t.t.device, t.t.dtype>>)>> \o rest
            ELSE IF IsListOrTuple(t)
            THEN <<PrintedLine("type", indent, <<t.kind>>)>>
                 \o print_inputs_from(t.elems, 1, indent + 1) \o rest
            ELSE <<PrintedLine("value", indent, <<t>>)>> \o rest

print_inputs(args) == print_inputs_from(args, 1, 0)

(***************************************************************************)
(* Outcomes of a call: a returned value or a raised exception, with the    *)
(* events the call produced (scans, invocations, printed lines).           *)
(***************************************************************************)
NoValue == Opaque(NoTensor)
NoError == [type |-> "", msg |-> <<>>, isException |-> FALSE]

Returned(v, trace) == [status |-> "return", value |-> v, err |-> NoError, trace |-> trace]
Raised(e, trace) == [status |-> "raise", value |-> NoValue, err |-> e, trace |-> trace]

\* raise Exception('Operator `{}` lost channels_last property'.format(name))
LostChannelsLast(name) ==
    [type |-> "Exception", msg |-> <<"Operator lost channels_last property", name>>,
     isException |-> TRUE]

ScanEvent(layer) == [ev |-> "scan", layer |-> layer, data |-> <<>>]
CallEvent(layer, args, kwargs) == [ev |-> "call", layer |-> layer, data |-> <<args, kwargs>>]
PrintEvent(layer, line) == [ev |-> "print", layer |-> layer, data |-> <<line>>]

Printed(layer, lines) == [k \in 1..Len(lines) |-> PrintEvent(layer, lines[k])]

\* print("`{}` inputs are:".format(name)); print_inputs(args)
InputsDump(name, args) ==
    <<PrintedLine("inputs are", 0, <<name>>)>> \o print_inputs(args)

\* the except branch: the dump, the separator line, then raise e
ErrorDump(name, args) ==
    InputsDump(name, args) \o <<PrintedLine("separator", 0, <<"-------------------">>)>>

\* print("`{}` got channels_last input, but output is not channels_last:"...)
Notice(name, result) ==
    PrintedLine("not channels_last", 0,
                <<name, result.t.shape, result.t.stride, result.t.device, result.t.dtype>>)

\* as CaughtByExceptException, had the handler been a bare except
CaughtByBareExcept(e) == TRUE

\* except Exception: the handler runs for instances of Exception only
CaughtByExceptException(e) == e.isException

\* as LostLayout, testing the result against the default layout
LostLayout_default_layout(was_cl, result) ==
    /\ was_cl
    /\ IsTensor(result)
    /\ Dim(result.t) = 4
    /\ ~IsContiguous(result.t)

\* as LostLayout, without result.dim() == 4
LostLayout_any_dim(was_cl, result) ==
    /\ was_cl
    /\ IsTensor(result)
    /\ ~IsChannelsLastContiguous(result.t)

\* the test of lines 252-257 on a result the wrapped callable returned
LostLayout(was_cl, result) ==
    /\ was_cl
    /\ IsTensor(result)
    /\ Dim(result.t) = 4
    /\ ~IsChannelsLastContiguous(result.t)

\* fn.__name__ of the callable a wrapper at this layer wraps: the original's
\* name at layer 1, the inner wrapper's (check_cl) above it
WrappedName(orig, layer) == IF layer = 1 THEN orig ELSE "check_cl"

(***************************************************************************)
(* check_cl as run by the wrapper at `layer` around an original callable   *)
(* named orig that behaves as beh; layer 0 is the original itself.         *)
(***************************************************************************)
RECURSIVE Invoke(_, _, _, _, _)

\* as check_cl, calling fn with the positional arguments only
check_cl_drops_kwargs(layer, orig, beh, args, kwargs) ==
    LET name == WrappedName(orig, layer)
        was_cl == contains_cl(args)
        r == Invoke(layer - 1, orig, beh, args, <<>>)
        sofar == <<ScanEvent(layer), CallEvent(layer, args, <<>>)>> \o r.trace
    IN IF r.status = "raise"
       THEN IF CaughtByExceptException(r.err)
            THEN Raised(r.err, sofar \o Printed(layer, ErrorDump(name, args)))
            ELSE Raised(r.err, sofar)
       ELSE IF LostLayout(was_cl, r.value)
            THEN Raised(LostChannelsLast(name),
                        sofar \o Printed(layer, <<Notice(name, r.value)>> \o InputsDump(name, args)))
            ELSE Returned(r.value, sofar)

check_cl(layer, orig, beh, args, kwargs) ==
    LET name == WrappedName(orig, layer)
        was_cl == contains_cl(args)
        r == Invoke(layer - 1, orig, beh, args, kwargs)
        sofar == <<ScanEvent(layer), CallEvent(layer, args, kwargs)>> \o r.trace
    IN IF r.status = "raise"
       THEN IF CaughtByExceptException(r.err)
            THEN Raised(r.err, sofar \o Printed(layer, ErrorDump(name, args)))
            ELSE Raised(r.err, sofar)
       ELSE IF LostLayout(was_cl, r.value)
            THEN Raised(LostChannelsLast(name),
                        sofar \o Printed(layer, <<Notice(name, r.value)>> \o InputsDump(name, args)))
            ELSE Returned(r.value, sofar)

Invoke(layer, orig, beh, args, kwargs) ==
    IF layer = 0
    THEN [status |-> beh.status, value |-> beh.value, err |-> beh.err, trace |-> <<>>]
    ELSE check_cl(layer, orig, beh, args, kwargs)

(***************************************************************************)
(* Inputs: tensors, argument trees, keyword arguments, behaviours of the   *)
(* wrapped callable.                                                       *)
(***************************************************************************)
Sizes == 1..MaxSize
Shapes4 == {<<n, c, h, w>> : n \in Sizes, c \in Sizes, h \in Sizes, w \in Sizes}
Uniform(n) == [d \in 1..n |-> MaxSize]

Tensors4 ==
    {MkTensor(s, ContiguousStrides(s)) : s \in Shapes4}
    \cup {MkTensor(s, ChannelsLastStrides(s)) : s \in Shapes4}
    \cup {MkTensor(s, TransposedStrides(s)) : s \in Shapes4}

\* tensors that are not 4-dimensional: a scalar, a 3-d and a 5-d tensor
TensorsOther == {MkTensor(Uniform(n), ContiguousStrides(Uniform(n))) : n \in {0, 3, 5}}

AllTensors == Tensors4 \cup TensorsOther

CLTensor == MkTensor(Uniform(4), ChannelsLastStrides(Uniform(4)))
ContigTensor == MkTensor(Uniform(4), ContiguousStrides(Uniform(4)))
\* one channel: channels-last strides that are also row-major contiguous
OneChannel == <<MaxSize, 1, MaxSize, MaxSize>>
BothTensor == MkTensor(OneChannel, ChannelsLastStrides(OneChannel))
Tensor3d == MkTensor(Uniform(3), ContiguousStrides(Uniform(3)))

LeafPool ==
    {TensorLeaf(CLTensor), TensorLeaf(ContigTensor), TensorLeaf(BothTensor),
     TensorLeaf(Tensor3d), Opaque(NoTensor), Opaque(CLTensor)}

SeqTypes == {"list", "tuple"}

\* argument elements nested exactly k lists/tuples deep
RECURSIVE Level(_)
Level(k) ==
    IF k = 0 THEN LeafPool
    ELSE LET sub == Level(k - 1) IN
         {SeqNode(ty, <<x>>) : ty \in SeqTypes, x \in sub}
         \cup {SeqNode(ty, <<TensorLeaf(ContigTensor), x>>) : ty \in SeqTypes, x \in sub}
         \cup (IF k = 1 THEN {SeqNode(ty, <<>>) : ty \in SeqTypes} ELSE {})

Elements == UNION {Level(k) : k \in 0..MaxDepth}

Fillers == {TensorLeaf(ContigTensor), Opaque(CLTensor), SeqNode("tuple", <<TensorLeaf(CLTensor)>>)}

\* an argument tuple: element x at position p among the fillers f
ArgsWith(f, p, x) == SubSeq(f, 1, p - 1) \o <<x>> \o SubSeq(f, p + 1, Len(f))

WrapElements ==
    LeafPool \cup {SeqNode("list", <<TensorLeaf(ContigTensor), TensorLeaf(CLTensor)>>)}

WrapArgs == UNION {[1..n -> WrapElements] : n \in 0..MaxArgs}

\* keyword arguments, as (key, value) pairs
KwargsPool == {<<>>, <<<<"input", TensorLeaf(CLTensor)>>>>}

Errors ==
    {[type |-> "RuntimeError", msg |-> <<"boom">>, isException |-> TRUE],
     [type |-> "KeyboardInterrupt", msg |-> <<>>, isException |-> FALSE]}

Results ==
    {TensorLeaf(t) : t \in AllTensors}
    \cup {Opaque(NoTensor), SeqNode("tuple", <<TensorLeaf(ContigTensor)>>)}

Return(v) == [status |-> "return", value |-> v, err |-> NoError]
Raise(e) == [status |-> "raise", value |-> NoValue, err |-> e]

Behaviours == {Return(v) : v \in Results} \cup {Raise(e) : e \in Errors}

FnNames == {"conv2d", "relu"}

Pending == [status |-> "pending", value |-> NoValue, err |-> NoError, trace |-> <<>>]
NoInput == [fn |-> "", args |-> <<>>, kwargs |-> <<>>, beh |-> Return(NoValue)]

(***************************************************************************)
(* Namespaces.  Member names are character sequences, as dir(m) lists      *)
(* them (sorted).                                                          *)
(***************************************************************************)
Name_f == <<"_", "f">>
NameAbs == <<"a", "b", "s">>
NameRelu == <<"r", "e", "l", "u">>
NameStride == <<"s", "t", "r", "i", "d", "e">>

Namespaces == {"plugin", "torch"}

\* dir(m)
Dir(m) == <<Name_f, NameAbs, NameRelu, NameStride>>

DirSet(m) == {Dir(m)[k] : k \in 1..Len(Dir(m))}

\* the __name__ of the object first bound to the name
NameOf(i) ==
    CASE i = Name_f -> "_f"
      [] i = NameAbs -> "abs"
      [] i = NameRelu -> "relu"
      [] i = NameStride -> "stride"

exclude_functions ==
    {<<"i", "s", "_", "c", "u", "d", "a">>,
     <<"h", "a", "s", "_", "n", "a", "m", "e", "s">>,
     <<"n", "u", "m", "e", "l">>,
     <<"s", "t", "r", "i", "d", "e">>,
     <<"T", "e", "n", "s", "o", "r">>,
     <<"i", "s", "_", "c", "o", "n", "t", "i", "g", "u", "o", "u", "s">>,
     <<"_", "_", "c", "l", "a", "s", "s", "_", "_">>}

\* i.startswith('_')
StartsWithUnderscore(i) == Len(i) >= 1 /\ i[1] = "_"

(***************************************************************************)
(* Kinds of the objects first bound to member names:                       *)
(*   function    a function or method                                      *)
(*   readonly    a function whose name in the namespace rejects setattr    *)
(*   class       a class whose instances are not callable: callable, but   *)
(*               dir() of it lists no __call__                             *)
(*   unnamed     a callable object without __name__                        *)
(*   data        a value that is not callable                              *)
(*   unreadable  a name dir(m) lists and getattr(m, name) raises on        *)
(***************************************************************************)
Kinds == {"function", "readonly", "class", "unnamed", "data", "unreadable"}

KindsOf(i) ==
    IF i = Name_f THEN {"function", "data", "unreadable"}
    ELSE IF i = NameStride THEN {"function", "unreadable"}
    ELSE Kinds

TorchKinds == [i \in DirSet("torch") |-> IF i = NameRelu THEN "class" ELSE "function"]

\* callable(e)
Invocable(kind) == kind \in {"function", "readonly", "class", "unnamed"}

\* a member value: the original object, under `depth` layers of check_cl
Original(i) == [orig |-> NameOf(i), depth |-> 0]

\* '__call__' in dir(e): e is the original object or a check_cl function
HasCallAttr(kind, e) ==
    IF e.depth > 0 THEN TRUE ELSE kind \in {"function", "readonly", "unnamed"}

\* name = fn.__name__ raises AttributeError on an object without __name__
WrapperRaises(kind, e) == e.depth = 0 /\ kind = "unnamed"

\* setattr(m, i, ...) raises on a read-only name
SetattrRaises(kind) == kind = "readonly"

\* getattr(m, i) raises
GetattrRaises(kind) == kind = "unreadable"

\* as check_wrapper, handing back the wrapped callable of a check_cl
check_wrapper_unwraps(e) ==
    IF e.depth > 0 THEN [orig |-> e.orig, depth |-> e.depth - 1]
    ELSE [orig |-> e.orig, depth |-> 1]

\* check_wrapper(e): a new check_cl closed over e
check_wrapper(e) == [orig |-> e.orig, depth |-> e.depth + 1]

(***************************************************************************)
(* attribute(m): the loop over dir(m) from index k; acc carries the        *)
(* namespace's members, the lines printed and the names visited.           *)
(***************************************************************************)
\* as attribute_from, without `i not in exclude_functions`
RECURSIVE attribute_from_no_exclusions(_, _, _, _)
attribute_from_no_exclusions(m, kd, k, acc) ==
    IF k > Len(Dir(m)) THEN [acc EXCEPT !.status = "completed"]
    ELSE LET i == Dir(m)[k]
             seen == [acc EXCEPT !.visited = Append(@, i)]
         IN IF GetattrRaises(kd[i])
            THEN [seen EXCEPT !.status = "aborted"]
            ELSE LET e == acc.mem[i] IN
                 IF ~StartsWithUnderscore(i) /\ HasCallAttr(kd[i], e)
                 THEN IF WrapperRaises(kd[i], e) \/ SetattrRaises(kd[i])
                      THEN attribute_from_no_exclusions(m, kd, k + 1, [seen EXCEPT !.log = Append(@, i)])
                      ELSE attribute_from_no_exclusions(m, kd, k + 1, [seen EXCEPT !.mem[i] = check_wrapper(e)])
                 ELSE attribute_from_no_exclusions(m, kd, k + 1, seen)

\* as attribute_from, leaving alone a member that is already a check_cl
RECURSIVE attribute_from_wrap_once(_, _, _, _)
attribute_from_wrap_once(m, kd, k, acc) ==
    IF k > Len(Dir(m)) THEN [acc EXCEPT !.status = "completed"]
    ELSE LET i == Dir(m)[k]
             seen == [acc EXCEPT !.visited = Append(@, i)]
         IN IF GetattrRaises(kd[i])
            THEN [seen EXCEPT !.status = "aborted"]
            ELSE LET e == acc.mem[i] IN
                 IF i \notin exclude_functions /\ ~StartsWithUnderscore(i) /\ HasCallAttr(kd[i], e)
                    /\ e.depth = 0
                 THEN IF WrapperRaises(kd[i], e) \/ SetattrRaises(kd[i])
                      THEN attribute_from_wrap_once(m, kd, k + 1, [seen EXCEPT !.log = Append(@, i)])
                      ELSE attribute_from_wrap_once(m, kd, k + 1, [seen EXCEPT !.mem[i] = check_wrapper(e)])
                 ELSE attribute_from_wrap_once(m, kd, k + 1, seen)

RECURSIVE attribute_from(_, _, _, _)
attribute_from(m, kd, k, acc) ==
    IF k > Len(Dir(m)) THEN [acc EXCEPT !.status = "completed"]
    ELSE LET i == Dir(m)[k]
             seen == [acc EXCEPT !.visited = Append(@, i)]
         IN IF GetattrRaises(kd[i])
            THEN [seen EXCEPT !.status = "aborted"]
            ELSE LET e == acc.mem[i] IN
                 IF i \notin exclude_functions /\ ~StartsWithUnderscore(i) /\ HasCallAttr(kd[i], e)
                 THEN IF WrapperRaises(kd[i], e) \/ SetattrRaises(kd[i])
                      THEN attribute_from(m, kd, k + 1, [seen EXCEPT !.log = Append(@, i)])
                      ELSE attribute_from(m, kd, k + 1, [seen EXCEPT !.mem[i] = check_wrapper(e)])
                 ELSE attribute_from(m, kd, k + 1, seen)

attribute(m, kd, mem) ==
    attribute_from(m, kd, 1, [mem |-> mem, log |-> <<>>, visited |-> <<>>, status |-> "running"])

(***************************************************************************)
(* State machine                                                           *)
(***************************************************************************)
NotScanned == [done |-> FALSE, result |-> FALSE]
NoPass == [m |-> "none", status |-> "none", log |-> <<>>, visited |-> <<>>]
NoCall == [m |-> "none", i |-> <<>>, depth |-> 0, args |-> <<>>, kwargs |-> <<>>,
           beh |-> Return(NoValue), out |-> Pending]

InitMembers == [m \in Namespaces |-> [i \in DirSet(m) |-> Original(i)]]

PluginKinds == {kd \in [DirSet("plugin") -> Kinds] : \A i \in DirSet("plugin") : kd[i] \in KindsOf(i)}

Idle ==
    /\ wrapIn = NoInput
    /\ wrapOut = Pending
    /\ scanIn = <<>>
    /\ scanOut = NotScanned

Fresh ==
    /\ members = InitMembers
    /\ before = InitMembers
    /\ pass = NoPass
    /\ passes = [m \in Namespaces |-> 0]
    /\ call = NoCall

Init ==
    /\ Fresh
    /\ Idle
    /\ \E kd \in PluginKinds : kinds = [m \in Namespaces |-> IF m = "plugin" THEN kd ELSE TorchKinds]

\* attribute(m), the whole pass
Attribute(m) ==
    /\ passes[m] < MaxPasses
    /\ LET r == attribute(m, kinds[m], members[m]) IN
       /\ members' = [members EXCEPT ![m] = r.mem]
       /\ pass' = [m |-> m, status |-> r.status, log |-> r.log, visited |-> r.visited]
    /\ before' = members
    /\ passes' = [passes EXCEPT ![m] = @ + 1]
    /\ UNCHANGED <<kinds, call, wrapIn, wrapOut, scanIn, scanOut>>

CallArgs == {<<TensorLeaf(CLTensor)>>, <<TensorLeaf(ContigTensor)>>}
CallBehaviours ==
    {Return(TensorLeaf(CLTensor)), Return(TensorLeaf(ContigTensor)),
     Raise([type |-> "RuntimeError", msg |-> <<"boom">>, isException |-> TRUE])}

\* m.i(*args, **kwargs) on an instrumented member
Call(m, i, args, kwargs, beh) ==
    /\ ~GetattrRaises(kinds[m][i])
    /\ members[m][i].depth > 0
    /\ LET e == members[m][i] IN
       call' = [m |-> m, i |-> i, depth |-> e.depth, args |-> args, kwargs |-> kwargs,
                beh |-> beh, out |-> Invoke(e.depth, e.orig, beh, args, kwargs)]
    /\ UNCHANGED <<members, kinds, before, pass, passes, wrapIn, wrapOut, scanIn, scanOut>>

Next ==
    \/ \E m \in Namespaces : Attribute(m)
    \/ \E m \in Namespaces : \E i \in DirSet(m) : \E args \in CallArgs : \E beh \in CallBehaviours :
          Call(m, i, args, <<>>, beh)

Spec == Init /\ [][Next]_vars

(***************************************************************************)
(* One call through one wrapper, over the wider input sets.                *)
(***************************************************************************)
InitWrap ==
    /\ Fresh
    /\ kinds = [m \in Namespaces |-> TorchKinds]
    /\ scanIn = <<>>
    /\ scanOut = NotScanned
    /\ wrapIn \in [fn : FnNames, args : WrapArgs, kwargs : KwargsPool, beh : Behaviours]
    /\ wrapOut = Pending

\* check_wrapper(fn)(*args, **kwargs)
WrapCall ==
    /\ wrapOut = Pending
    /\ wrapOut' = check_cl(1, wrapIn.fn, wrapIn.beh, wrapIn.args, wrapIn.kwargs)
    /\ UNCHANGED <<members, kinds, before, pass, passes, call, wrapIn, scanIn, scanOut>>

NextWrap == WrapCall

SpecWrap == InitWrap /\ [][NextWrap]_vars

(***************************************************************************)
(* contains_cl alone, over the deeper argument trees.                      *)
(***************************************************************************)
InitScan ==
    /\ Fresh
    /\ kinds = [m \in Namespaces |-> TorchKinds]
    /\ wrapIn = NoInput
    /\ wrapOut = Pending
    /\ \/ scanIn = <<>>
       \/ \E t \in AllTensors : scanIn = <<TensorLeaf(t)>>
       \/ \E n \in 1..MaxArgs : \E p \in 1..n : \E x \in Elements : \E f \in [1..n -> Fillers] :
             scanIn = ArgsWith(f, p, x)
    /\ scanOut = NotScanned

Scan ==
    /\ scanOut = NotScanned
    /\ scanOut' = [done |-> TRUE, result |-> contains_cl(scanIn)]
    /\ UNCHANGED <<members, kinds, before, pass, passes, call, wrapIn, wrapOut, scanIn>>

NextScan == Scan

SpecScan == InitScan /\ [][NextScan]_vars

(***************************************************************************)
(* Reading a call's events                                                 *)
(***************************************************************************)
IsPrint(e) == e.ev = "print"
PrintedLines(trace) ==
    LET ps == SelectSeq(trace, IsPrint) IN [k \in 1..Len(ps) |-> ps[k].data[1]]
EventIndexes(trace, ev, layer) ==
    {k \in 1..Len(trace) : trace[k].ev = ev /\ trace[k].layer = layer}

\* the tensors an argument tuple holds directly or inside lists and tuples
RECURSIVE TensorsThroughSequences(_)
TensorsThroughSequences(xs) ==
    UNION {IF IsTensor(xs[k]) THEN {xs[k].t}
           ELSE IF IsListOrTuple(xs[k]) THEN TensorsThroughSequences(xs[k].elems)
           ELSE {} : k \in 1..Len(xs)}

ChannelsLastOnly(t) == IsChannelsLastContiguous(t) /\ ~IsContiguous(t)

KwargValues(kwargs) == [k \in 1..Len(kwargs) |-> kwargs[k][2]]

\* a result that is one 4-dimensional tensor, not channels-last contiguous
RegressedResult(v) == IsTensor(v) /\ Dim(v.t) = 4 /\ ~IsChannelsLastContiguous(v.t)

WrapDone == wrapOut.status # "pending"

(***************************************************************************)
(* C4: contains_cl(args) is true exactly when some tensor reached through  *)
(* lists and tuples only is channels-last contiguous and not default       *)
(* contiguous; a tensor built with channels-last strides on a shape with   *)
(* at least two channels and two pixels scans true, the same shape with    *)
(* default strides scans false, and the scan always yields a boolean.      *)
(***************************************************************************)
C4_ScanFindsChannelsLastOnlyLeaf ==
    scanOut.done =>
      /\ scanOut.result \in BOOLEAN
      /\ scanOut.result = (\E t \in TensorsThroughSequences(scanIn) : ChannelsLastOnly(t))
      /\ \A s \in Shapes4 :
            (s[2] >= 2 /\ s[3] * s[4] >= 2) =>
              /\ scanIn = <<TensorLeaf(MkTensor(s, ChannelsLastStrides(s)))>> => scanOut.result
              /\ scanIn = <<TensorLeaf(MkTensor(s, ContiguousStrides(s)))>> => ~scanOut.result
      /\ (\A k \in 1..Len(scanIn) : scanIn[k] \in {TensorLeaf(BothTensor), Opaque(CLTensor)})
            => ~scanOut.result

\* a channels-last tensor found two levels deep in the second argument
C4_Witness ==
    /\ scanOut.done
    /\ scanOut.result
    /\ scanIn = <<TensorLeaf(ContigTensor),
                  SeqNode("list", <<TensorLeaf(ContigTensor),
                                    SeqNode("tuple", <<TensorLeaf(CLTensor)>>)>>)>>

(***************************************************************************)
(* C1: when the wrapped callable returns, the scan of the positional       *)
(* arguments was true and the result is one 4-dimensional tensor that is   *)
(* not channels-last contiguous, the wrapper raises the lost-channels_last *)
(* exception naming the wrapped callable, after printing the notice and    *)
(* then the dump of the arguments.                                         *)
(***************************************************************************)
C1_RegressionRaises ==
    (/\ WrapDone
     /\ wrapIn.beh.status = "return"
     /\ contains_cl(wrapIn.args)
     /\ RegressedResult(wrapIn.beh.value)) =>
        LET lines == PrintedLines(wrapOut.trace) IN
        /\ wrapOut.status = "raise"
        /\ wrapOut.err.type = "Exception"
        /\ wrapOut.err.msg = <<"Operator lost channels_last property", wrapIn.fn>>
        /\ Len(lines) = 2 + Len(print_inputs(wrapIn.args))
        /\ lines[1].tag = "not channels_last"
        /\ lines[1].text[1] = wrapIn.fn
        /\ lines[1].text[2] = wrapIn.beh.value.t.shape
        /\ lines[2].tag = "inputs are"
        /\ lines[2].text = <<wrapIn.fn>>
        /\ SubSeq(lines, 3, Len(lines)) = print_inputs(wrapIn.args)

C1_Witness ==
    /\ wrapOut.status = "raise"
    /\ wrapIn.beh.status = "return"
    /\ wrapIn.beh.value = TensorLeaf(ContigTensor)
    /\ Len(wrapIn.args) = 2
    /\ wrapIn.args[2] = TensorLeaf(CLTensor)
    /\ wrapOut.err.msg = <<"Operator lost channels_last property", wrapIn.fn>>

(***************************************************************************)
(* C2 as claimed: whenever the wrapped callable raises E, the wrapper      *)
(* prints the callable's name and the dump of the arguments and then       *)
(* raises E itself.                                                        *)
(***************************************************************************)
C2_AsClaimed ==
    (WrapDone /\ wrapIn.beh.status = "raise") =>
        LET lines == PrintedLines(wrapOut.trace) IN
        /\ wrapOut.status = "raise"
        /\ wrapOut.err = wrapIn.beh.err
        /\ Len(lines) >= 1
        /\ lines[1].tag = "inputs are"
        /\ lines[1].text = <<wrapIn.fn>>

(***************************************************************************)
(* C2 amended: whenever the wrapped callable raises E, the wrapper raises  *)
(* that same E and never returns; when E is an instance of Exception it    *)
(* first prints the callable's name, the dump of the arguments and the     *)
(* separator; when E is not (KeyboardInterrupt, SystemExit) it prints      *)
(* nothing.                                                                *)
(***************************************************************************)
C2_ErrorPropagates ==
    (WrapDone /\ wrapIn.beh.status = "raise") =>
        LET lines == PrintedLines(wrapOut.trace) IN
        /\ wrapOut.status = "raise"
        /\ wrapOut.err = wrapIn.beh.err
        /\ IF ~wrapIn.beh.err.isException
           THEN lines = <<>>
           ELSE /\ Len(lines) = 2 + Len(print_inputs(wrapIn.args))
                /\ lines[1].tag = "inputs are"
                /\ lines[1].text = <<wrapIn.fn>>
                /\ SubSeq(lines, 2, Len(lines) - 1) = print_inputs(wrapIn.args)
                /\ lines[Len(lines)].tag = "separator"

C2_Witness ==
    /\ wrapOut.status = "raise"
    /\ wrapIn.beh.status = "raise"
    /\ wrapIn.beh.err.type = "RuntimeError"
    /\ wrapOut.err.type = "RuntimeError"
    /\ Len(wrapIn.args) = 2
    /\ Len(PrintedLines(wrapOut.trace)) >= 4

(***************************************************************************)
(* C3 as claimed: when any argument of the call, positional or keyword,    *)
(* holds a channels-last-only tensor and the wrapped callable returns a    *)
(* regressed 4-dimensional tensor, the call raises and does not return.    *)
(***************************************************************************)
C3_AsClaimed ==
    (/\ WrapDone
     /\ wrapIn.beh.status = "return"
     /\ RegressedResult(wrapIn.beh.value)
     /\ \E t \in TensorsThroughSequences(wrapIn.args)
                 \cup TensorsThroughSequences(KwargValues(wrapIn.kwargs)) : ChannelsLastOnly(t))
      => wrapOut.status = "raise"

(***************************************************************************)
(* C3 amended: when a positional argument holds, directly or inside lists  *)
(* and tuples, a channels-last-only tensor and the wrapped callable        *)
(* returns a regressed 4-dimensional tensor, the call prints the notice    *)
(* and raises; when no positional argument does, the result is returned    *)
(* even if a keyword argument is a channels-last tensor.                   *)
(***************************************************************************)
C3_PositionalInputsChecked ==
    (/\ WrapDone
     /\ wrapIn.beh.status = "return"
     /\ RegressedResult(wrapIn.beh.value)) =>
        IF \E t \in TensorsThroughSequences(wrapIn.args) : ChannelsLastOnly(t)
        THEN /\ wrapOut.status = "raise"
             /\ wrapOut.err.msg = <<"Operator lost channels_last property", wrapIn.fn>>
             /\ PrintedLines(wrapOut.trace)[1].tag = "not channels_last"
        ELSE /\ wrapOut.status = "return"
             /\ wrapOut.value = wrapIn.beh.value

\* the channels-last tensor sits inside a list given as the only argument
C3_Witness ==
    /\ wrapOut.status = "raise"
    /\ wrapIn.beh.status = "return"
    /\ wrapIn.args = <<SeqNode("list", <<TensorLeaf(ContigTensor), TensorLeaf(CLTensor)>>)>>
    /\ wrapIn.kwargs # <<>>
    /\ RegressedResult(wrapIn.beh.value)

(***************************************************************************)
(* C5: when the wrapped callable returns R and there is no violation (the  *)
(* scan of the positional arguments is false, or R is no tensor, or R is   *)
(* not 4-dimensional, or R is channels-last contiguous), the wrapper       *)
(* returns R itself, raises nothing and prints nothing.                    *)
(***************************************************************************)
C5_ResultReturnedUnchanged ==
    (/\ WrapDone
     /\ wrapIn.beh.status = "return"
     /\ \/ ~contains_cl(wrapIn.args)
        \/ ~IsTensor(wrapIn.beh.value)
        \/ Dim(wrapIn.beh.value.t) # 4
        \/ IsChannelsLastContiguous(wrapIn.beh.value.t)) =>
        /\ wrapOut.status = "return"
        /\ wrapOut.value = wrapIn.beh.value
        /\ wrapOut.err = NoError
        /\ PrintedLines(wrapOut.trace) = <<>>

\* a channels-last first argument of two and a layout-preserving result
C5_Witness ==
    /\ wrapOut.status = "return"
    /\ Len(wrapIn.args) = 2
    /\ wrapIn.args[1] = TensorLeaf(CLTensor)
    /\ wrapIn.beh.value = TensorLeaf(CLTensor)
    /\ wrapOut.value = TensorLeaf(CLTensor)

(***************************************************************************)
(* C10: every call through a wrapper invokes the wrapped callable exactly  *)
(* once, with the positional and keyword arguments the wrapper received,   *)
(* after the one scan of the arguments and before anything is printed,     *)
(* whether the call returns, re-raises or raises the lost-channels_last    *)
(* exception.                                                              *)
(***************************************************************************)
C10_OriginalInvokedOnce ==
    WrapDone =>
        LET calls == EventIndexes(wrapOut.trace, "call", 1)
            scans == EventIndexes(wrapOut.trace, "scan", 1)
            prints == EventIndexes(wrapOut.trace, "print", 1)
        IN /\ Cardinality(calls) = 1
           /\ Cardinality(scans) = 1
           /\ \A c \in calls :
                 /\ wrapOut.trace[c].data = <<wrapIn.args, wrapIn.kwargs>>
                 /\ \A k \in scans : k < c
                 /\ \A k \in prints : c < k

C10_Witness ==
    /\ wrapOut.status = "raise"
    /\ wrapIn.kwargs # <<>>
    /\ wrapIn.args # <<>>
    /\ wrapOut.err.type = "Exception"
    /\ EventIndexes(wrapOut.trace, "print", 1) # {}

(***************************************************************************)
(* Reading a pass                                                          *)
(***************************************************************************)
PassRan == pass.m # "none"
PassCompleted == pass.status = "completed"
Wrapped(now, was) == now.orig = was.orig /\ now.depth = was.depth + 1

\* members the claim exempts: excluded or underscore names, non-callables
Exempt(m, i) ==
    \/ i \in exclude_functions
    \/ i[1] = "_"
    \/ ~Invocable(kinds[m][i])

\* members the loop passes over: line 272 is false of them
PassedOver(m, i) ==
    \/ i \in exclude_functions
    \/ i[1] = "_"
    \/ ~HasCallAttr(kinds[m][i], before[m][i])

\* members on which line 274 raises: check_wrapper finds no __name__, or
\* setattr is rejected
FailsToWrap(m, i) ==
    \/ kinds[m][i] = "readonly"
    \/ kinds[m][i] = "unnamed" /\ before[m][i].depth = 0

(***************************************************************************)
(* C6 as claimed: after a completed attribute(m), every excluded,          *)
(* underscore-named or non-callable member is the object it was, and every *)
(* other callable member is the wrapper of the object it was.              *)
(***************************************************************************)
C6_AsClaimed ==
    (PassRan /\ PassCompleted) =>
        \A i \in DirSet(pass.m) :
            IF Exempt(pass.m, i)
            THEN members[pass.m][i] = before[pass.m][i]
            ELSE Wrapped(members[pass.m][i], before[pass.m][i])

(***************************************************************************)
(* C6 amended: after a completed attribute(m), every excluded,             *)
(* underscore-named or non-callable member is the object it was; so is     *)
(* every member whose dir() lists no __call__ (a class of non-callable     *)
(* instances), and every member on which check_wrapper or setattr raises   *)
(* (no __name__, a read-only name), whose name is printed; every other     *)
(* member is the wrapper of the object it was.                             *)
(***************************************************************************)
C6_CompletedPass ==
    (PassRan /\ PassCompleted) =>
        /\ \A i \in DirSet(pass.m) :
              IF PassedOver(pass.m, i) \/ FailsToWrap(pass.m, i)
              THEN members[pass.m][i] = before[pass.m][i]
              ELSE Wrapped(members[pass.m][i], before[pass.m][i])
        /\ \A i \in DirSet(pass.m) :
              Exempt(pass.m, i) => members[pass.m][i] = before[pass.m][i]
        /\ \A i \in DirSet(pass.m) :
              (\E k \in 1..Len(pass.log) : pass.log[k] = i) <=>
                 (~PassedOver(pass.m, i) /\ FailsToWrap(pass.m, i))

\* an excluded callable kept, a function wrapped, a read-only one skipped
C6_Witness ==
    /\ PassRan /\ PassCompleted
    /\ pass.m = "plugin"
    /\ kinds["plugin"][NameStride] = "function"
    /\ members["plugin"][NameStride].depth = 0
    /\ kinds["plugin"][NameAbs] = "readonly"
    /\ members["plugin"][NameAbs].depth = 0
    /\ kinds["plugin"][NameRelu] = "function"
    /\ members["plugin"][NameRelu].depth = 1
    /\ pass.log = <<NameAbs>>

(***************************************************************************)
(* C7 as claimed: a pass never aborts; whatever fails on one member, the   *)
(* pass visits every name of dir(m), and every other member that can be    *)
(* wrapped ends up wrapped.                                                *)
(***************************************************************************)
C7_AsClaimed ==
    PassRan =>
        /\ pass.status = "completed"
        /\ pass.visited = Dir(pass.m)
        /\ \A i \in DirSet(pass.m) :
              (~Exempt(pass.m, i) /\ kinds[pass.m][i] = "function")
                 => Wrapped(members[pass.m][i], before[pass.m][i])

(***************************************************************************)
(* C8: a member that is a wrapper stays one in every later state: no pass  *)
(* over any namespace and no call, failing or not, puts a member back to   *)
(* fewer layers of check_cl than it had, or changes the original under     *)
(* them.                                                                   *)
(***************************************************************************)
C8_WrappedForever ==
    [][\A m \in Namespaces : \A i \in DirSet(m) :
          /\ members[m][i].depth > 0 => members'[m][i].depth > 0
          /\ members'[m][i].depth >= members[m][i].depth
          /\ members'[m][i].orig = members[m][i].orig]_vars

\* both namespaces instrumented, one of them twice, and a call that raised
C8_Witness ==
    /\ passes["plugin"] = 2
    /\ passes["torch"] = 1
    /\ members["plugin"][NameAbs].depth = 2
    /\ members["torch"][NameAbs].depth = 1
    /\ call.m = "torch"
    /\ call.out.status = "raise"

(***************************************************************************)
(* C9: a further pass over a namespace wraps again every member that was   *)
(* already wrapped, so a wrapped member has one layer per pass; a call to  *)
(* a member under d layers runs check_cl once per layer (one scan and one  *)
(* invocation of the next layer each) and invokes the original once.       *)
(***************************************************************************)
C9_DoubleWraps ==
    /\ PassRan =>
          \A i \in DirSet(pass.m) :
              before[pass.m][i].depth > 0 /\ (\E k \in 1..Len(pass.visited) : pass.visited[k] = i)
                 => Wrapped(members[pass.m][i], before[pass.m][i])
    /\ \A m \in Namespaces : \A i \in DirSet(m) :
          members[m][i].depth > 0 => members[m][i].depth = passes[m]
    /\ call.m # "none" =>
          /\ call.depth >= 1
          /\ \A layer \in 1..call.depth :
                /\ Cardinality(EventIndexes(call.out.trace, "scan", layer)) = 1
                /\ Cardinality(EventIndexes(call.out.trace, "call", layer)) = 1
          /\ \A k \in 1..Len(call.out.trace) : call.out.trace[k].layer \in 1..call.depth

\* a call through two layers
C9_Witness ==
    /\ passes["torch"] = 2
    /\ members["torch"][NameAbs].depth = 2
    /\ call.m = "torch"
    /\ call.i = NameAbs
    /\ call.depth = 2
    /\ call.out.status = "return"
    /\ Cardinality(EventIndexes(call.out.trace, "call", 1)) = 1

====
